---- MODULE Spec2Model ----
(***************************************************************************)
(* Model of the DMA telemetry pipeline of src/dma_int/main.rs:             *)
(* DmaTelemetry::create / DmaTelemetry::send, fill_with_str, the RTFM      *)
(* init task and the handle_mpu interrupt task, together with the DMA      *)
(* channel that transmits the static BUFFER asynchronously.                *)
(*                                                                         *)
(* Two execution contexts exist: "base" (init, then the idle loop) and     *)
(* "irq" (handle_mpu).  Each context has a program counter pc[c], the      *)
(* TransferState value it currently owns st[c] and, while inside send,     *)
(* the callback it was called with, filler[c].  A callback is modelled as  *)
(* the sequence of strings it passes to fill_with_str, in order.           *)
(*                                                                         *)
(* The module also models the sensor-streaming program of                  *)
(* src/raw_sensors/main.rs: its statics L, RX and QUIET, main with its     *)
(* measurement loop, and the USART1 handler usart_exti25 that preempts it. *)
(***************************************************************************)
EXTENDS Naturals, Sequences, FiniteSets, TLC

VARIABLES
    pc,          \* [Ctx -> position in init / handle_mpu / send]
    st,          \* [Ctx -> TransferState value owned by the context]
    filler,      \* [Ctx -> callback of the send call in progress]
    BUFFER,      \* static mut BUFFER: contents of the heapless Vec
    TELE,        \* the TELE resource: Uninit, None or Some(state)
    dma,         \* DMA channel: [state, len, id] of the last started transfer
    wire,        \* bytes the DMA channel moved to the USART in the last transfer
    intEnabled,  \* interrupts are unmasked (after init has returned)
    halted,      \* panic_abort has stopped the processor
    irqCount,    \* number of handle_mpu invocations so far
    live,        \* handles of transfers started and not yet reclaimed by wait
    call,        \* [Ctx -> bookkeeping of the current (or last) send call]
    QUIET,       \* raw_sensors: static mut QUIET
    RX,          \* raw_sensors: static mut RX is "None" or "Some"
    L,           \* raw_sensors: static mut L is "None" or "Some"
    mainPc,      \* raw_sensors: position of main
    isrOn,       \* raw_sensors: the USART1 interrupt is enabled in the NVIC
    loaded,      \* raw_sensors: values of QUIET main has loaded so far
    seen,        \* raw_sensors: what `!QUIET` on line 97 read in this iteration
    lastRx,      \* raw_sensors: result of the handler's last rx.read()
    lastOut,     \* raw_sensors: the last thing written to the logger, and by whom
    cnt,         \* raw_sensors: counters [q, rx, loop, imu, qAtCheck]
    acc          \* raw_sensors: who accessed which static, when and how

\* The variables of the DMA telemetry program.
dmaVars == << pc, st, filler, BUFFER, TELE, dma, wire, intEnabled, halted,
              irqCount, live, call >>

\* The variables of the sensor-streaming program.
rsVars == << QUIET, RX, L, mainPc, isrOn, loaded, seen, lastRx, lastOut, cnt, acc >>

vars == << dmaVars, rsVars >>

Ctx == {"base", "irq"}

\* ------------------------------------------------------------- bounds
\* Number of handle_mpu invocations explored.
MaxIrqs == 3

\* Number of usart_exti25 invocations explored.
MaxRx == 2

\* Number of iterations of main's loop explored.
MaxLoops == 2

\* Number of transfers started in SpecLive.
MaxTransfers == 8

\* ---------------------------------------------------------- constants
\* type TxBuffer = Vec<u8, U256>
Capacity == 256

\* "Dma ok!\r\n".as_bytes()
BootStr == << 68, 109, 97, 32, 111, 107, 33, 13, 10 >>

\* "interrupt!\n".as_bytes()
IntrStr == << 105, 110, 116, 101, 114, 114, 117, 112, 116, 33, 10 >>

\* The callback init passes to send: |b| fill_with_str(b, "Dma ok!\r\n")
InitFiller == << BootStr >>

\* The callback handle_mpu passes to send: |b| fill_with_str(b, "interrupt!\n")
IrqFiller == << IntrStr >>

\* const TURN_QUIET: u8 = 'q' as u8
TURN_QUIET == 113

\* The statics of raw_sensors.
Statics == {"L", "RX", "QUIET"}

\* Bytes the USART receives: 'q' and, for every other byte, 'a'.
RxBytes == {TURN_QUIET, 97}

\* What rx.read() can return: a byte, WouldBlock, or one of the errors.
RxResults ==
    [kind : {"Ok"}, b : RxBytes] \cup
    [kind : {"WouldBlock", "Overrun", "Framing", "Noise", "OtherErr"}, b : {0}]

\* A string of n equal bytes.
Rep(n, b) == [i \in 1..n |-> b]

\* Strings offered to fill_with_str by the callbacks of SpecAny: the two
\* strings of the program, the empty string, one byte, and strings that
\* fill the buffer up to one byte short of, and exactly to, its capacity.
AnyStrs ==
    { BootStr, IntrStr, Rep(0, 120), Rep(1, 120),
      Rep(Capacity - 1, 121), Rep(Capacity, 122) }

\* Callbacks of SpecAny: no append, one append, two appends.
AnyFillers ==
    {<< >>} \cup { << s >> : s \in AnyStrs } \cup { << s, t >> : s \in AnyStrs, t \in AnyStrs }

\* ------------------------------------------------------ TransferState
NoneV == [tag |-> "None", h |-> 0]
UninitV == [tag |-> "Uninit", h |-> 0]
\* TransferState::Ready((buffer, ch, tx)): the TxReady triple
ReadyV == [tag |-> "Ready", h |-> 0]
\* TransferState::MaybeBusy(transfer): the TxBusy handle of transfer h
MaybeBusy(h) == [tag |-> "MaybeBusy", h |-> h]

NoCall ==
    [ entryTag |-> "None", entryH |-> 0, entryBuf |-> << >>, nFill |-> 0, nStart |-> 0,
      nWait |-> 0, nClear |-> 0, nDoneChk |-> 0, depth |-> 0, done |-> "unk",
      handed |-> << >>, bufAtFill |-> << >> ]

\* Bookkeeping of a send call entered with state s.
NewCall(s) ==
    [ NoCall EXCEPT !.entryTag = s.tag, !.entryH = s.h, !.entryBuf = BUFFER ]

\* ------------------------------------------------- heapless / helpers
Min(a, b) == IF a < b THEN a ELSE b

\* Mutant: a slice that fills the buffer exactly is refused.
extend_from_slice_ge(buffer, bytes) ==
    IF Len(buffer) + Len(bytes) >= Capacity
    THEN [ok |-> FALSE, buf |-> buffer]
    ELSE [ok |-> TRUE, buf |-> buffer \o bytes]

\* heapless Vec::extend_from_slice: Err(()) and no change when the slice
\* does not fit, otherwise every byte is pushed.
extend_from_slice(buffer, bytes) ==
    IF Len(buffer) + Len(bytes) > Capacity
    THEN [ok |-> FALSE, buf |-> buffer]
    ELSE [ok |-> TRUE, buf |-> buffer \o bytes]

\* Mutant: the last byte of the string is not appended.
fill_with_str_short(buffer, arg) ==
    extend_from_slice(buffer, IF arg = << >> THEN arg ELSE SubSeq(arg, 1, Len(arg) - 1))

\* fill_with_str: extend_from_slice(arg.as_bytes()).unwrap()
fill_with_str(buffer, arg) == extend_from_slice(buffer, arg)

\* buffer_filler(&mut buffer): the callback's appends, in order; the first
\* failing unwrap panics and leaves what was appended before it.
RECURSIVE buffer_filler(_, _)
buffer_filler(buffer, cb) ==
    IF cb = << >>
    THEN [ok |-> TRUE, buf |-> buffer]
    ELSE LET r == fill_with_str(buffer, Head(cb))
         IN  IF r.ok THEN buffer_filler(r.buf, Tail(cb)) ELSE r

\* All the bytes a callback asks to append.
RECURSIVE Flatten(_)
Flatten(cb) == IF cb = << >> THEN << >> ELSE Head(cb) \o Flatten(Tail(cb))

\* Mutant: the completion of a transfer is never seen.
is_done_never(h) == FALSE

\* Mutant: a transfer that is still running is treated as finished.
is_done_always(h) == TRUE

\* Transfer::is_done on handle h: the channel's transfer-complete flag.
is_done(h) == dma.id = h /\ dma.state = "complete"

\* Mutant: the payload is appended although the transfer is not done.
AfterIsDone_fill(d) == IF d THEN "wait" ELSE "fill"

\* Where send goes after `if transfer.is_done()`.
AfterIsDone(d) == IF d THEN "wait" ELSE "match2"

\* Mutant: every state is treated as Ready.
FirstArm_ready(s) == "fill"

\* The arm `match self.state` selects.
FirstArm(s) == IF s.tag = "Ready" THEN "fill" ELSE "is_done"

\* Mutant: the buffer is not emptied.
clear_keep(buffer) == buffer

\* heapless Vec::clear
clear(buffer) == << >>

\* Mutant: the arms of `match ns` are swapped.
ReturnsNow_swapped(s) == s.tag = "Ready"

\* Mutant: the reclaimed state is returned without sending again.
ReturnsNow_always(s) == TRUE

\* `match ns`: MaybeBusy returns, Ready recurses.
ReturnsNow(s) == s.tag = "MaybeBusy"

\* Mutant: take copies the state out and leaves it in the slot.
TakeLeaves_copy(v) == v

\* What TELE.take() leaves in the slot.
TakeLeaves(v) == IF v.tag = "Uninit" THEN UninitV ELSE NoneV

\* The processor runs context c: nothing is halted, and the base context
\* runs only while no interrupt handler is active.
Runs(c) == ~halted /\ (c = "base" => pc["irq"] = "idle")

\* Mutant: the handler can run while init is still executing.
CanEnterIrq_early == ~halted /\ pc["irq"] = "idle"

\* handle_mpu may be entered: interrupts are unmasked and the handler is
\* not already running (a task does not preempt itself).
CanEnterIrq == intEnabled /\ ~halted /\ pc["irq"] = "idle"

\* ---------------------------------------------------------------- Init
DmaInit ==
    /\ pc = [c \in Ctx |-> IF c = "base" THEN "create" ELSE "idle"]
    /\ st = [c \in Ctx |-> NoneV]
    /\ filler = [c \in Ctx |-> << >>]
    /\ BUFFER = << >>
    /\ TELE = UninitV
    /\ dma = [state |-> "idle", len |-> 0, id |-> 0]
    /\ wire = << >>
    /\ intEnabled = FALSE
    /\ halted = FALSE
    /\ irqCount = 0
    /\ live = {}
    /\ call = [c \in Ctx |-> NoCall]

\* The statics of raw_sensors as initialised at lines 19-21, main at its entry.
RsInit ==
    /\ QUIET = TRUE
    /\ RX = "None"
    /\ L = "None"
    /\ mainPc = "setup"
    /\ isrOn = FALSE
    /\ loaded = {}
    /\ seen = TRUE
    /\ lastRx = [kind |-> "None", b |-> 0]
    /\ lastOut = [by |-> "none", what |-> "none", b |-> 0]
    /\ cnt = [q |-> 0, rx |-> 0, loop |-> 0, imu |-> 0, qAtCheck |-> 0]
    /\ acc = [r \in Statics |-> {}]

Init == DmaInit /\ RsInit

\* ------------------------------------------------------ init (base)
\* let tele = DmaTelemetry::create(dma_channels.4, tx);
InitCreate ==
    /\ Runs("base") /\ pc["base"] = "create"
    /\ st' = [st EXCEPT !["base"] = ReadyV]
    /\ pc' = [pc EXCEPT !["base"] = "call"]
    /\ UNCHANGED << filler, BUFFER, TELE, dma, wire, intEnabled, halted, irqCount, live, call, rsVars >>

\* Entry of tele.send(cb) in init.
InitCallWith(cb) ==
    /\ Runs("base") /\ pc["base"] = "call"
    /\ filler' = [filler EXCEPT !["base"] = cb]
    /\ call' = [call EXCEPT !["base"] = NewCall(st["base"])]
    /\ pc' = [pc EXCEPT !["base"] = "match1"]
    /\ UNCHANGED << st, BUFFER, TELE, dma, wire, intEnabled, halted, irqCount, live, rsVars >>

InitCall == InitCallWith(InitFiller)

InitCallAny == \E cb \in AnyFillers : InitCallWith(cb)

\* init::LateResources { TELE: Some(new_tele) }
InitPut ==
    /\ Runs("base") /\ pc["base"] = "ret"
    /\ TELE' = st["base"]
    /\ st' = [st EXCEPT !["base"] = NoneV]
    /\ pc' = [pc EXCEPT !["base"] = "post_init"]
    /\ filler' = [filler EXCEPT !["base"] = << >>]
    /\ call' = [call EXCEPT !["base"] = NoCall]
    /\ UNCHANGED << BUFFER, dma, wire, intEnabled, halted, irqCount, live, rsVars >>

\* RTFM unmasks interrupts after init has returned and the late resources
\* are stored; the base context then idles.
EnableInterrupts ==
    /\ Runs("base") /\ pc["base"] = "post_init"
    /\ intEnabled' = TRUE
    /\ pc' = [pc EXCEPT !["base"] = "idle"]
    /\ UNCHANGED << st, filler, BUFFER, TELE, dma, wire, halted, irqCount, live, call, rsVars >>

\* ----------------------------------------------- handle_mpu (irq)
\* let maybe_tele = ctx.resources.TELE.take();
IrqTakeTo(n) ==
    /\ CanEnterIrq
    /\ irqCount' = n
    /\ st' = [st EXCEPT !["irq"] = TELE]
    /\ TELE' = TakeLeaves(TELE)
    /\ pc' = [pc EXCEPT !["irq"] = "if_some"]
    /\ UNCHANGED << filler, BUFFER, dma, wire, intEnabled, halted, live, call, rsVars >>

\* The handler is entered, at most MaxIrqs times.
IrqTake == irqCount < MaxIrqs /\ IrqTakeTo(irqCount + 1)

\* The handler is entered, any number of times, until MaxTransfers
\* transfers have been started.
IrqTakeLive == dma.id < MaxTransfers /\ IrqTakeTo(irqCount)

\* if let Some(tele) = maybe_tele { tele.send(cb) ... } else: return
IrqCallWith(cb) ==
    /\ Runs("irq") /\ pc["irq"] = "if_some"
    /\ IF st["irq"].tag \in {"Ready", "MaybeBusy"}
       THEN /\ filler' = [filler EXCEPT !["irq"] = cb]
            /\ call' = [call EXCEPT !["irq"] = NewCall(st["irq"])]
            /\ pc' = [pc EXCEPT !["irq"] = "match1"]
            /\ UNCHANGED st
       ELSE /\ pc' = [pc EXCEPT !["irq"] = "idle"]
            /\ st' = [st EXCEPT !["irq"] = NoneV]
            /\ UNCHANGED << filler, call >>
    /\ UNCHANGED << BUFFER, TELE, dma, wire, intEnabled, halted, irqCount, live, rsVars >>

IrqCall == IrqCallWith(IrqFiller)

IrqCallAny == \E cb \in AnyFillers : IrqCallWith(cb)

\* Mutant: the handler returns without storing the new state in TELE.
IrqPut_forget ==
    /\ Runs("irq") /\ pc["irq"] = "ret"
    /\ st' = [st EXCEPT !["irq"] = NoneV]
    /\ pc' = [pc EXCEPT !["irq"] = "idle"]
    /\ filler' = [filler EXCEPT !["irq"] = << >>]
    /\ call' = [call EXCEPT !["irq"] = NoCall]
    /\ UNCHANGED << BUFFER, TELE, dma, wire, intEnabled, halted, irqCount, live, rsVars >>

\* *ctx.resources.TELE = Some(new_tele);
IrqPut ==
    /\ Runs("irq") /\ pc["irq"] = "ret"
    /\ TELE' = st["irq"]
    /\ st' = [st EXCEPT !["irq"] = NoneV]
    /\ pc' = [pc EXCEPT !["irq"] = "idle"]
    /\ filler' = [filler EXCEPT !["irq"] = << >>]
    /\ call' = [call EXCEPT !["irq"] = NoCall]
    /\ UNCHANGED << BUFFER, dma, wire, intEnabled, halted, irqCount, live, rsVars >>

\* ------------------------------------------------ DmaTelemetry::send
\* let ns = match self.state { Ready(..) => .., MaybeBusy(transfer) => .. }
SendMatch(c) ==
    /\ Runs(c) /\ pc[c] = "match1"
    /\ pc' = [pc EXCEPT ![c] = FirstArm(st[c])]
    /\ UNCHANGED << st, filler, BUFFER, TELE, dma, wire, intEnabled, halted, irqCount, live, call, rsVars >>

\* buffer_filler(&mut buffer);
SendFill(c) ==
    /\ Runs(c) /\ pc[c] = "fill"
    /\ LET r == buffer_filler(BUFFER, filler[c])
       IN  /\ BUFFER' = r.buf
           /\ pc' = [pc EXCEPT ![c] = IF r.ok THEN "write_all" ELSE "panic"]
           /\ halted' = ~r.ok
    /\ call' = [call EXCEPT ![c].nFill = @ + 1, ![c].bufAtFill = BUFFER]
    /\ UNCHANGED << st, filler, TELE, dma, wire, intEnabled, irqCount, live, rsVars >>

\* TransferState::MaybeBusy(tx.write_all(ch, buffer))
SendWriteAll(c) ==
    /\ Runs(c) /\ pc[c] = "write_all"
    /\ LET h == dma.id + 1
       IN  /\ dma' = [state |-> "running", len |-> Len(BUFFER), id |-> h]
           /\ st' = [st EXCEPT ![c] = MaybeBusy(h)]
           /\ live' = live \cup {h}
    /\ wire' = << >>
    /\ call' = [call EXCEPT ![c].nStart = @ + 1, ![c].handed = BUFFER]
    /\ pc' = [pc EXCEPT ![c] = "match2"]
    /\ UNCHANGED << filler, BUFFER, TELE, intEnabled, halted, irqCount, rsVars >>

\* if transfer.is_done() { .. } else { TransferState::MaybeBusy(transfer) }
SendIsDone(c) ==
    /\ Runs(c) /\ pc[c] = "is_done"
    /\ LET d == is_done(st[c].h)
       IN  /\ pc' = [pc EXCEPT ![c] = AfterIsDone(d)]
           /\ call' = [call EXCEPT ![c].done = IF d THEN "yes" ELSE "no",
                                   ![c].nDoneChk = @ + 1]
    /\ UNCHANGED << st, filler, BUFFER, TELE, dma, wire, intEnabled, halted, irqCount, live, rsVars >>

\* let (buffer, ch, tx) = transfer.wait();  -- blocks until the channel
\* reports transfer complete, then gives back the TxReady triple.
SendWait(c) ==
    /\ Runs(c) /\ pc[c] = "wait"
    /\ dma.id = st[c].h /\ dma.state = "complete"
    /\ live' = live \ {st[c].h}
    /\ st' = [st EXCEPT ![c] = ReadyV]
    /\ dma' = [dma EXCEPT !.state = "idle"]
    /\ call' = [call EXCEPT ![c].nWait = @ + 1]
    /\ pc' = [pc EXCEPT ![c] = "clear"]
    /\ UNCHANGED << filler, BUFFER, TELE, wire, intEnabled, halted, irqCount, rsVars >>

\* buffer.clear(); TransferState::Ready((buffer, ch, tx))
SendClear(c) ==
    /\ Runs(c) /\ pc[c] = "clear"
    /\ BUFFER' = clear(BUFFER)
    /\ call' = [call EXCEPT ![c].nClear = @ + 1]
    /\ pc' = [pc EXCEPT ![c] = "match2"]
    /\ UNCHANGED << st, filler, TELE, dma, wire, intEnabled, halted, irqCount, live, rsVars >>

\* match ns { MaybeBusy(_) => with_state(ns), Ready(_) => with_state(ns).send(buffer_filler) }
SendMatch2(c) ==
    /\ Runs(c) /\ pc[c] = "match2"
    /\ IF ReturnsNow(st[c])
       THEN /\ pc' = [pc EXCEPT ![c] = "ret"]
            /\ UNCHANGED call
       ELSE /\ pc' = [pc EXCEPT ![c] = "match1"]
            /\ call' = [call EXCEPT ![c].depth = @ + 1]
    /\ UNCHANGED << st, filler, BUFFER, TELE, dma, wire, intEnabled, halted, irqCount, live, rsVars >>

\* ------------------------------------------------------- DMA channel
\* The channel moves the dma.len bytes at BUFFER to the USART and raises
\* its transfer-complete flag; it runs independently of the processor.
HwTransmit ==
    /\ dma.state = "running"
    /\ wire' = SubSeq(BUFFER, 1, Min(dma.len, Len(BUFFER)))
    /\ dma' = [dma EXCEPT !.state = "complete"]
    /\ UNCHANGED << pc, st, filler, BUFFER, TELE, intEnabled, halted, irqCount, live, call, rsVars >>

\* ------------------------------------------------------ specifications
\* The step of send that context c is about to take.
SendStep(c) ==
    \/ SendMatch(c) \/ SendFill(c) \/ SendWriteAll(c) \/ SendIsDone(c)
    \/ SendWait(c) \/ SendClear(c) \/ SendMatch2(c)

Send == \E c \in Ctx : SendStep(c)

\* The program: init and handle_mpu with their own callbacks.
Next ==
    \/ InitCreate \/ InitCall \/ InitPut \/ EnableInterrupts
    \/ IrqTake \/ IrqCall \/ IrqPut
    \/ Send
    \/ HwTransmit

Spec == Init /\ [][Next]_vars

\* send driven with arbitrary callbacks from the same two call sites.
NextAny ==
    \/ InitCreate \/ InitCallAny \/ InitPut \/ EnableInterrupts
    \/ IrqTake \/ IrqCallAny \/ IrqPut
    \/ Send
    \/ HwTransmit

SpecAny == Init /\ [][NextAny]_vars

\* The processor's steps when the handler is invoked again and again.
CpuStepLive ==
    \/ InitCreate \/ InitCall \/ InitPut \/ EnableInterrupts
    \/ IrqTakeLive \/ IrqCall \/ IrqPut
    \/ Send

NextLive == CpuStepLive \/ HwTransmit

\* The program with the handler invoked infinitely often and every started
\* transfer completing: the processor keeps running and the channel
\* finishes what it was given.
SpecLive ==
    Init /\ [][NextLive]_vars /\ WF_vars(CpuStepLive) /\ WF_vars(HwTransmit)

\* ------------------------------------------ raw_sensors: main and handler
\* The record of one access to a static: who, whether the USART1 interrupt
\* was already enabled, and whether it was a read or a write.
Access(c, k) == [c |-> c, ph |-> IF isrOn THEN "on" ELSE "pre", k |-> k]

\* acc with the accesses `as` added to static r.
Touch(a, r, as) == [a EXCEPT ![r] = @ \cup as]

\* extract(opt): panics on None.
extract_ok(opt) == opt = "Some"

\* `if b == TURN_QUIET` of the handler.
IsTurnQuiet(b) == b = TURN_QUIET

\* `QUIET = !QUIET`
Toggle(q) == ~q

\* `if unsafe { !QUIET }` of the main loop, on the value it read.
EmitsImu_always(q) == TRUE

EmitsImu(q) == ~q

\* The results of rx.read() on which the handler writes to the logger, and what.
Echo(r) ==
    IF r.kind = "Ok" /\ ~IsTurnQuiet(r.b) THEN {[by |-> "isr", what |-> "echo", b |-> r.b]}
    ELSE IF r.kind = "OtherErr" THEN {[by |-> "isr", what |-> "read error", b |-> 0]}
    ELSE {}

\* Lines 46-49: main stores the logger and the receiver in the statics.
MainStatics ==
    /\ mainPc = "setup"
    /\ L' = "Some"
    /\ RX' = "Some"
    /\ acc' = Touch(Touch(acc, "L", {Access("main", "w")}), "RX", {Access("main", "w")})
    /\ mainPc' = "boot"
    /\ UNCHANGED << QUIET, isrOn, loaded, seen, lastRx, lastOut, cnt, dmaVars >>

\* Lines 50-78: main takes the logger out of L, reports, and brings up the
\* MPU; a failed init or calibration is reported and panics.
MainBoot ==
    /\ mainPc = "boot"
    /\ acc' = Touch(acc, "L", {Access("main", "w")})
    /\ IF ~extract_ok(L)
       THEN mainPc' = "halt" /\ UNCHANGED lastOut
       ELSE \E ok \in BOOLEAN :
              /\ lastOut' = [by |-> "main", what |-> IF ok THEN "calibration ok" ELSE "Mpu error", b |-> 0]
              /\ mainPc' = IF ok THEN "enable" ELSE "halt"
    /\ UNCHANGED << QUIET, RX, L, isrOn, loaded, seen, lastRx, cnt, dmaVars >>

\* The mutant of MainEnable: the interrupt is enabled before the statics are set.
MainEnable_first ==
    /\ mainPc = "setup"
    /\ ~isrOn
    /\ isrOn' = TRUE
    /\ UNCHANGED << QUIET, RX, L, mainPc, loaded, seen, lastRx, lastOut, cnt, acc, dmaVars >>

\* Lines 79-81: nvic.enable(ser_int).
MainEnable ==
    /\ mainPc = "enable"
    /\ isrOn' = TRUE
    /\ mainPc' = "banner"
    /\ UNCHANGED << QUIET, RX, L, loaded, seen, lastRx, lastOut, cnt, acc, dmaVars >>

\* Lines 83-90: the "All ok" banner.
MainBanner ==
    /\ mainPc = "banner"
    /\ lastOut' = [by |-> "main", what |-> "All ok", b |-> 0]
    /\ acc' = Touch(acc, "L", {Access("main", "w")})
    /\ mainPc' = "loop"
    /\ UNCHANGED << QUIET, RX, L, isrOn, loaded, seen, lastRx, cnt, dmaVars >>

\* Lines 92-93 and 105-107: one iteration begins with mpu.all(); its error is
\* written to the logger whatever QUIET is.
MainAll ==
    /\ mainPc = "loop"
    /\ cnt.loop < MaxLoops
    /\ cnt' = [cnt EXCEPT !.loop = @ + 1]
    /\ \E ok \in BOOLEAN :
         IF ok
         THEN mainPc' = "check" /\ UNCHANGED << lastOut, acc >>
         ELSE /\ lastOut' = [by |-> "main", what |-> "Err", b |-> 0]
              /\ acc' = Touch(acc, "L", {Access("main", "w")})
              /\ mainPc' = "loop"
    /\ UNCHANGED << QUIET, RX, L, isrOn, loaded, seen, lastRx, dmaVars >>

\* Line 97: `if unsafe { !QUIET }`.  QUIET is a static mut that the handler
\* writes concurrently, so the read is a data race: the build either loads
\* the static or reuses the value of an earlier load.
MainCheck ==
    /\ mainPc = "check"
    /\ \/ /\ seen' = QUIET
          /\ loaded' = {QUIET}
          /\ acc' = Touch(acc, "QUIET", {Access("main", "r")})
       \/ /\ seen' \in loaded
          /\ UNCHANGED << loaded, acc >>
    /\ mainPc' = IF EmitsImu(seen') THEN "write" ELSE "loop"
    /\ cnt' = [cnt EXCEPT !.qAtCheck = cnt.q]
    /\ UNCHANGED << QUIET, RX, L, isrOn, lastRx, lastOut, dmaVars >>

\* Lines 98-102: the IMU line.
MainWrite ==
    /\ mainPc = "write"
    /\ lastOut' = [by |-> "main", what |-> "IMU", b |-> 0]
    /\ acc' = Touch(acc, "L", {Access("main", "w")})
    /\ cnt' = [cnt EXCEPT !.imu = @ + 1]
    /\ mainPc' = "loop"
    /\ UNCHANGED << QUIET, RX, L, isrOn, loaded, seen, lastRx, dmaVars >>

\* Lines 148-178: the handler, run to completion on the result r of rx.read().
Handler(r) ==
    /\ acc' = Touch(Touch(Touch(acc, "RX", {Access("isr", "w")}),
                          "L", {Access("isr", "w")}),
                    "QUIET", IF r.kind = "Ok" /\ IsTurnQuiet(r.b)
                             THEN {Access("isr", "r"), Access("isr", "w")} ELSE {})
    /\ IF ~extract_ok(RX) \/ ~extract_ok(L)
       THEN /\ mainPc' = "halt"
            /\ UNCHANGED << QUIET, lastRx, lastOut, cnt >>
       ELSE /\ lastRx' = r
            /\ QUIET' = IF r.kind = "Ok" /\ IsTurnQuiet(r.b) THEN Toggle(QUIET) ELSE QUIET
            /\ lastOut' = IF Echo(r) = {} THEN lastOut
                          ELSE CHOOSE w \in Echo(r) : TRUE
            /\ cnt' = [cnt EXCEPT !.rx = @ + 1,
                                  !.q = IF r = [kind |-> "Ok", b |-> TURN_QUIET] THEN @ + 1 ELSE @]
            /\ UNCHANGED mainPc
    /\ UNCHANGED << RX, L, isrOn, loaded, seen, dmaVars >>

\* USART1_EXTI25 preempts main anywhere once it is enabled.
usart_exti25 ==
    /\ isrOn
    /\ mainPc # "halt"
    /\ cnt.rx < MaxRx
    /\ \E r \in RxResults : Handler(r)

NextRS ==
    \/ MainStatics \/ MainBoot \/ MainEnable \/ MainBanner
    \/ MainAll \/ MainCheck \/ MainWrite
    \/ usart_exti25

\* The sensor-streaming program.
SpecRS == Init /\ [][NextRS]_vars

\* ------------------------------------------------- the whole firmware
\* Both programs, each on its own board, running side by side.
NextFirmware == Next \/ NextRS

SpecFirmware == Init /\ [][NextFirmware]_vars

\* ============================================================== claims
InSend(c) ==
    pc[c] \in {"match1", "fill", "write_all", "is_done", "wait", "clear", "match2", "ret", "panic"}

\* The send call of context c found its transfer incomplete.
FoundBusy(c) == InSend(c) /\ call[c].entryTag = "MaybeBusy" /\ call[c].done = "no"

\* The send call of context c found its transfer complete.
FoundDone(c) == InSend(c) /\ call[c].entryTag = "MaybeBusy" /\ call[c].done = "yes"

\* C1: a send call on a MaybeBusy state whose is_done returned false never
\* calls write_all and returns MaybeBusy with the handle it was given; the
\* channel still runs that same transfer, however many such calls follow
\* one another.
C1_NoDoubleStart ==
    \A c \in Ctx :
        FoundBusy(c) =>
            /\ call[c].nStart = 0
            /\ pc[c] \in {"match2", "ret"}
            /\ st[c] = MaybeBusy(call[c].entryH)
            /\ dma.id = call[c].entryH
            /\ live = {call[c].entryH}

\* Two consecutive handler calls both found the boot transfer running.
C1_Witness ==
    /\ pc["irq"] = "ret" /\ FoundBusy("irq")
    /\ irqCount >= 2 /\ dma.id = 1 /\ st["irq"] = MaybeBusy(1)

\* C2: a send call on a MaybeBusy state whose is_done returned true does,
\* by the time it returns, exactly one wait, one clear, one callback
\* invocation and one write_all, and the buffer handed to write_all holds
\* exactly the bytes this call's callback appended.
C2_ReclaimThenRestart ==
    \A c \in Ctx :
        /\ call[c].nWait <= 1 /\ call[c].nClear <= 1
        /\ (FoundDone(c) /\ pc[c] = "ret") =>
              /\ call[c].nDoneChk = 1
              /\ call[c].nWait = 1
              /\ call[c].nClear = 1
              /\ call[c].nFill = 1
              /\ call[c].nStart = 1
              /\ call[c].bufAtFill = << >>
              /\ call[c].handed = Flatten(filler[c])
              /\ BUFFER = Flatten(filler[c])
              /\ dma.len = Len(Flatten(filler[c]))
              /\ st[c] = MaybeBusy(call[c].entryH + 1)
              /\ live = {call[c].entryH + 1}

\* A call reclaimed a non-empty previous payload and started another one.
C2_Witness ==
    /\ pc["irq"] = "ret" /\ FoundDone("irq")
    /\ call["irq"].entryBuf # << >>
    /\ BUFFER # << >> /\ BUFFER # call["irq"].entryBuf

\* C3: a send call on a Ready state invokes the callback once, calls
\* write_all once and returns MaybeBusy, whatever the callback appends
\* (nothing included); the buffer handed to write_all is exactly what the
\* callback appended, for the boot callback the 9 bytes of "Dma ok!\r\n".
C3_ReadySend ==
    \A c \in Ctx :
        (InSend(c) /\ call[c].entryTag = "Ready" /\ pc[c] = "ret") =>
            /\ call[c].nFill = 1
            /\ call[c].nStart = 1
            /\ call[c].nDoneChk = 0 /\ call[c].nWait = 0 /\ call[c].depth = 0
            /\ st[c].tag = "MaybeBusy"
            /\ call[c].handed = Flatten(filler[c])
            /\ dma.len = Len(Flatten(filler[c]))
            /\ (filler[c] = InitFiller =>
                   /\ call[c].handed = BootStr
                   /\ dma.len = 9
                   /\ Capacity - dma.len = 247)

\* The call on Ready with a callback that appends nothing has returned.
C3_Witness ==
    /\ pc["base"] = "ret" /\ call["base"].entryTag = "Ready"
    /\ filler["base"] = << >> /\ st["base"] = MaybeBusy(1) /\ dma.len = 0

\* C4: a send call that found its transfer incomplete does not invoke the
\* callback and leaves the contents and length of the buffer of the
\* running transfer as they were; its payload is kept nowhere, so every
\* transfer, when started and when transmitted, carries only the bytes of
\* the callback of the call that started it.
C4_DroppedWhileBusy ==
    /\ \A c \in Ctx :
          /\ FoundBusy(c) =>
                /\ call[c].nFill = 0
                /\ BUFFER = call[c].entryBuf
                /\ dma.len = Len(call[c].entryBuf)
          /\ (InSend(c) /\ call[c].nStart = 1) => call[c].handed = Flatten(filler[c])
          /\ ~InSend(c) => filler[c] = << >>
    /\ (dma.state = "complete" /\ \A c \in Ctx : pc[c] # "panic") =>
          (wire = BUFFER \/ BUFFER = << >>)

\* A busy call returned without its (non-empty, different) payload.
C4_Witness ==
    /\ pc["irq"] = "ret" /\ FoundBusy("irq")
    /\ Flatten(filler["irq"]) # << >>
    /\ Flatten(filler["irq"]) # BUFFER

\* The bytes of the first k strings of a callback.
Prefix(cb, k) == Flatten(SubSeq(cb, 1, k))

\* C5: the callback's appends succeed, and the transfer is started, exactly
\* when they fit the remaining capacity, a fit to the last byte included;
\* an append that exceeds the remaining capacity panics, leaves the buffer
\* as the appends before it left it, and the call starts no transfer.
C5_CapacityBoundary ==
    \A c \in Ctx :
        (InSend(c) /\ call[c].nFill = 1) =>
            LET before == call[c].bufAtFill
                total == Len(before) + Len(Flatten(filler[c]))
            IN  /\ (pc[c] = "panic") <=> (total > Capacity)
                /\ pc[c] # "panic" =>
                      /\ BUFFER = before \o Flatten(filler[c])
                      /\ (pc[c] = "ret" => call[c].nStart = 1 /\ dma.len = total)
                /\ pc[c] = "panic" =>
                      /\ halted
                      /\ call[c].nStart = 0
                      /\ \E k \in 1..Len(filler[c]) :
                            /\ BUFFER = before \o Prefix(filler[c], k - 1)
                            /\ Len(BUFFER) + Len(filler[c][k]) > Capacity

\* An append one byte larger than the remaining capacity has panicked.
C5_Witness ==
    /\ pc["irq"] = "panic" /\ halted
    /\ BUFFER # << >>
    /\ Len(BUFFER) + Len(filler["irq"][2]) = Capacity + 1

\* Reachability of the exact fit: appends that fill the buffer to its last
\* byte succeeded and the transfer of Capacity bytes was started.
C5_ExactFitReached ==
    /\ pc["irq"] = "ret" /\ Len(filler["irq"]) = 2
    /\ Len(filler["irq"][1]) = 1
    /\ Len(BUFFER) = Capacity /\ dma.len = Capacity /\ call["irq"].nStart = 1


\* A value that owns the buffer, the channel and the transmitter.
Owns(v) == v.tag \in {"Ready", "MaybeBusy"}

\* The places that hold such a value: the slot and the two contexts.
Owners == {x \in {"TELE"} \cup Ctx : Owns(IF x = "TELE" THEN TELE ELSE st[x])}

\* The places that hold the idle TxReady triple.
ReadyOwners == {x \in {"TELE"} \cup Ctx : (IF x = "TELE" THEN TELE ELSE st[x]).tag = "Ready"}

\* Context c writes the buffer in this step (callback append or clear).
WritesBuffer(c) ==
    \/ call'[c].nFill > call[c].nFill
    \/ call'[c].nClear > call[c].nClear

\* C6: once created, the buffer has exactly one owner, which is either the
\* idle Ready triple or the handle of the one transfer in flight, and the
\* processor changes the buffer (callback append or clear) only in a
\* context that holds the Ready triple while no transfer is started and
\* unreclaimed.
C6_ExclusiveOwnership ==
    /\ [](pc["base"] # "create" =>
            /\ Cardinality(Owners) = 1
            /\ Cardinality(ReadyOwners) + Cardinality(live) = 1
            /\ \A x \in Owners :
                  LET v == IF x = "TELE" THEN TELE ELSE st[x]
                  IN  v.tag = "MaybeBusy" => live = {v.h})
    /\ [][ /\ BUFFER' # BUFFER => \E c \in Ctx : WritesBuffer(c)
           /\ \A c \in Ctx :
                 WritesBuffer(c) =>
                    /\ st[c] = ReadyV /\ st'[c] = ReadyV
                    /\ live = {}
                    /\ dma.state # "running" ]_vars

\* The handler holds the reclaimed triple and has cleared the buffer while
\* the slot is empty.
C6_Witness ==
    /\ pc["irq"] = "match2" /\ call["irq"].nClear = 1
    /\ st["irq"] = ReadyV /\ TELE = NoneV /\ st["base"] = NoneV
    /\ live = {} /\ BUFFER = << >> /\ call["irq"].entryBuf # << >>

\* A transfer is started in this step.
Started == dma'.id # dma.id

\* C7: at most one transfer is started and not yet reclaimed; write_all
\* happens only in a step that takes a context from Ready to MaybeBusy,
\* while no transfer is outstanding, and every such step starts exactly
\* one transfer.
C7_OneOutstanding ==
    /\ [](Cardinality(live) <= 1)
    /\ [][ /\ Started =>
                \E c \in Ctx :
                    /\ st[c] = ReadyV
                    /\ st'[c] = MaybeBusy(dma'.id)
                    /\ dma'.id = dma.id + 1
                    /\ call'[c].nStart = call[c].nStart + 1
                    /\ live = {} /\ live' = {dma'.id}
                    /\ dma.state # "running"
           /\ \A c \in Ctx :
                 (st[c].tag = "Ready" /\ st'[c].tag = "MaybeBusy") => Started ]_vars

\* A second transfer was started after the first one was reclaimed.
C7_Witness ==
    /\ pc["irq"] = "match2" /\ call["irq"].nStart = 1 /\ call["irq"].nWait = 1
    /\ dma.id = 2 /\ live = {2} /\ dma.state = "running"

\* C8: send reaches wait only on the handle whose is_done returned true in
\* the same call, when the channel has already completed that transfer, so
\* wait returns at once; every step of a send call that is not preempted
\* can be taken without any progress of the hardware.
C8_NeverWaits ==
    \A c \in Ctx :
        /\ (pc[c] = "wait" \/ (InSend(c) /\ call[c].nWait > 0)) =>
              /\ call[c].done = "yes"
              /\ call[c].nDoneChk = 1
        /\ pc[c] = "wait" =>
              /\ st[c] = MaybeBusy(call[c].entryH)
              /\ dma.id = st[c].h
              /\ dma.state = "complete"
        /\ (Runs(c) /\ InSend(c) /\ pc[c] \notin {"ret", "panic"}) => ENABLED SendStep(c)

\* The handler is about to call wait on a transfer found complete.
C8_Witness ==
    /\ pc["irq"] = "wait" /\ call["irq"].done = "yes"
    /\ dma.state = "complete" /\ is_done(st["irq"].h)

\* Context c is inside a take-modify-put sequence on TELE.
InTMP(c) ==
    IF c = "base"
    THEN pc[c] \notin {"create", "post_init", "idle"}
    ELSE pc[c] # "idle"

\* C9: the take-modify-put sequences of init and handle_mpu never overlap:
\* init holds the state only while interrupts are masked and no handler has
\* run, afterwards only the handler changes TELE, no two contexts hold a
\* state at once, and the handler's take always finds the slot full.
C9_NoOverlap ==
    /\ [](~(InTMP("base") /\ InTMP("irq")))
    /\ [](~(Owns(st["base"]) /\ Owns(st["irq"])))
    /\ [](pc["base"] \notin {"post_init", "idle"} => ~intEnabled /\ irqCount = 0 /\ TELE = UninitV)
    /\ [](pc["irq"] = "if_some" => Owns(st["irq"]) /\ TELE = NoneV /\ pc["base"] = "idle")
    /\ [](pc["base"] = "idle" /\ pc["irq"] = "idle" => Owns(TELE))
    /\ [][ TELE' # TELE =>
             IF intEnabled
             THEN pc["base"] = "idle" /\ pc'["base"] = "idle" /\ pc'["irq"] # pc["irq"]
             ELSE pc["base"] = "ret" /\ pc'["base"] = "post_init" /\ pc["irq"] = "idle" ]_vars

\* The handler has taken the state a previous handler run had put back.
C9_Witness ==
    /\ pc["irq"] = "if_some" /\ irqCount = 2
    /\ TELE = NoneV /\ Owns(st["irq"]) /\ pc["base"] = "idle"

\* Outcome 1 of a send call: callback invoked once, its payload started.
Outcome1(c) ==
    /\ call[c].nFill = 1 /\ call[c].nStart = 1
    /\ call[c].handed = Flatten(filler[c])
    /\ st[c] = MaybeBusy(dma.id) /\ dma.id # call[c].entryH
    /\ live = {dma.id}

\* Outcome 2 of a send call: transfer found incomplete, nothing changed.
Outcome2(c) ==
    /\ call[c].done = "no"
    /\ call[c].nFill = 0 /\ call[c].nStart = 0
    /\ st[c] = MaybeBusy(call[c].entryH) /\ call[c].entryTag = "MaybeBusy"
    /\ BUFFER = call[c].entryBuf

\* C10: a send call returns in exactly one of two ways, with the callback
\* invoked once and its payload started in this call, or with the transfer
\* found incomplete, the callback not invoked and the state unchanged; the
\* callback is invoked at most once per call and write_all follows it.
C10_TwoOutcomes ==
    \A c \in Ctx :
        /\ call[c].nFill <= 1 /\ call[c].nStart <= 1
        /\ call[c].nStart = 1 => call[c].nFill = 1
        /\ call[c].nFill = 1 => (pc[c] = "write_all" \/ call[c].nStart = 1)
        /\ pc[c] = "ret" => (Outcome1(c) /\ ~Outcome2(c)) \/ (Outcome2(c) /\ ~Outcome1(c))

\* A handler call reclaimed the boot transfer and started its own payload.
C10_Witness ==
    /\ pc["irq"] = "ret" /\ Outcome1("irq")
    /\ call["irq"].depth = 1 /\ BUFFER = IntrStr /\ call["irq"].entryBuf = BootStr

\* Number of steps send has at most left to take from its position.
Rank(c) ==
    CASE pc[c] \in {"ret", "panic"} -> 0
      [] pc[c] = "match2" /\ st[c].tag = "MaybeBusy" -> 1
      [] pc[c] = "write_all" -> 2
      [] pc[c] = "fill" -> 3
      [] pc[c] = "match1" /\ st[c].tag = "Ready" -> 4
      [] pc[c] = "match2" /\ st[c].tag = "Ready" -> 5
      [] pc[c] = "clear" -> 6
      [] pc[c] = "wait" -> 7
      [] pc[c] = "is_done" -> 8
      [] pc[c] = "match1" /\ st[c].tag = "MaybeBusy" -> 9
      [] OTHER -> 10

\* C12: a send call terminates: each of its steps brings it closer to its
\* return; it re-enters itself at most once, only after it has reclaimed a
\* completed transfer, the re-entered call takes the Ready arm and does not
\* query is_done or recurse again, and a call that starts in Ready or finds
\* the transfer incomplete does not recurse.
C12_BoundedRecursion ==
    /\ [](\A c \in Ctx :
            /\ call[c].depth <= 1
            /\ InSend(c) => Rank(c) <= 9
            /\ call[c].depth = 1 =>
                  /\ call[c].entryTag = "MaybeBusy" /\ call[c].done = "yes"
                  /\ call[c].nWait = 1 /\ call[c].nClear = 1 /\ call[c].nDoneChk = 1
                  /\ pc[c] \in {"match1", "fill", "write_all", "match2", "ret", "panic"}
                  /\ pc[c] = "match1" => st[c] = ReadyV
                  /\ pc[c] = "match2" => st[c].tag = "MaybeBusy"
            /\ (InSend(c) /\ (call[c].entryTag = "Ready" \/ call[c].done = "no")) =>
                  call[c].depth = 0)
    /\ [][\A c \in Ctx :
            (InSend(c) /\ InSend(c)' /\ pc'[c] # pc[c]) => Rank(c)' < Rank(c)]_vars

\* A call has re-entered itself once and returned.
C12_Witness ==
    /\ pc["irq"] = "ret" /\ call["irq"].depth = 1
    /\ call["irq"].nWait = 1 /\ call["irq"].nStart = 1

\* C13: handle_mpu takes the state out of TELE, calls send on it and stores
\* the result back: while the handler runs the slot is empty, whenever no
\* handler runs after init the slot holds one TransferState, the handler
\* always finds Some, and only a panic inside send leaves the slot empty.
C13_TakeModifyPut ==
    /\ [](pc["irq"] # "idle" => TELE = NoneV /\ Owns(st["irq"]) /\ pc["base"] = "idle")
    /\ []((pc["irq"] = "idle" /\ pc["base"] \in {"post_init", "idle"}) =>
            Owns(TELE) /\ st["irq"] = NoneV)
    /\ [](TELE = NoneV /\ halted => pc["irq"] = "panic")
    /\ [][ /\ pc["irq"] = "if_some" /\ pc'["irq"] # "if_some" =>
                 pc'["irq"] = "match1" /\ call'["irq"].entryTag = st["irq"].tag
           /\ pc["irq"] = "ret" /\ pc'["irq"] # "ret" =>
                 pc'["irq"] = "idle" /\ TELE' = st["irq"] /\ Owns(TELE') ]_vars

\* Two handler runs have each put a state back into the slot.
C13_Witness ==
    /\ pc["irq"] = "idle" /\ pc["base"] = "idle" /\ irqCount = 2
    /\ Owns(TELE) /\ st["irq"] = NoneV

\* C15: every send call that returns, returns a MaybeBusy state, whether it
\* entered with Ready or MaybeBusy and whatever is_done answered; TELE
\* therefore never holds Ready, and a context holds Ready only inside send
\* (or, in init, between create and the first send).
C15_AlwaysMaybeBusy ==
    /\ \A c \in Ctx :
          /\ pc[c] = "ret" => st[c].tag = "MaybeBusy"
          /\ st[c].tag = "Ready" =>
                \/ pc[c] \in {"match1", "fill", "write_all", "clear", "match2", "panic"}
                \/ (c = "base" /\ pc[c] = "call")
    /\ TELE.tag \in {"Uninit", "None", "MaybeBusy"}

\* The slot holds the MaybeBusy state of a transfer a handler call started.
C15_Witness ==
    /\ pc["irq"] = "idle" /\ TELE = MaybeBusy(2) /\ irqCount >= 1

\* C16: the buffer is empty whenever the callback is invoked, so the length
\* of every transfer is the length of the payload of the call that started
\* it; with the program's payloads of 9 and 11 bytes nothing accumulates
\* and the overflow panic is never reached.
C16_EmptyAtFill ==
    \A c \in Ctx :
        /\ pc[c] = "fill" => BUFFER = << >>
        /\ call[c].nFill = 1 => call[c].bufAtFill = << >>
        /\ call[c].nStart = 1 =>
              /\ Len(call[c].handed) = Len(Flatten(filler[c]))
              /\ dma.len = Len(Flatten(filler[c]))
        /\ pc[c] # "panic" /\ ~halted
        /\ Len(BUFFER) \in {0, Len(BootStr), Len(IntrStr)}
        /\ Len(BootStr) = 9 /\ Len(IntrStr) = 11 /\ Len(IntrStr) <= Capacity

\* The callback is about to run on the buffer a reclaim has just emptied.
C16_Witness ==
    /\ pc["irq"] = "fill" /\ BUFFER = << >>
    /\ call["irq"].entryBuf = IntrStr /\ call["irq"].nClear = 1

\* C14: the machine has no terminal state: with the handler invoked again
\* and again and every started transfer completing, each transfer is
\* reclaimed and followed by the start of the next one, and as long as the
\* processor is not halted a step is always possible.
C14_KeepsCycling ==
    /\ \A k \in 1..(MaxTransfers - 1) : (dma.id = k) ~> (dma.id = k + 1 /\ live = {k + 1})
    /\ <>(dma.id = MaxTransfers)
    /\ []((~halted /\ dma.id < MaxTransfers) => ENABLED CpuStepLive)
    /\ [](~halted)

\* A handler call reclaimed the second transfer and started the third.
C14_Witness ==
    /\ pc["irq"] = "ret" /\ call["irq"].done = "yes" /\ call["irq"].entryH = 2
    /\ dma.id = 3 /\ live = {3}

\* The handler ran to completion in this step.
HandlerRan == cnt'.rx = cnt.rx + 1

\* An IMU line is written in this step.
ImuWritten == cnt'.imu = cnt.imu + 1

\* The number of 'q' bytes received so far is even.
EvenQ == cnt.q % 2 = 0

\* C17 as stated: QUIET starts true; the handler toggles it on 'q' without
\* echoing, echoes every other byte and leaves QUIET unchanged on a read
\* error; the main loop writes an IMU line only in iterations where QUIET is
\* false at the time of the check, so after an even number of 'q' bytes no
\* IMU line is emitted.
C17_Original ==
    /\ [](cnt.rx = 0 => QUIET)
    /\ [][ HandlerRan =>
             /\ (lastRx' = [kind |-> "Ok", b |-> TURN_QUIET]) => (QUIET' = ~QUIET /\ lastOut' = lastOut)
             /\ (lastRx'.kind = "Ok" /\ lastRx'.b # TURN_QUIET) =>
                    (QUIET' = QUIET /\ lastOut' = [by |-> "isr", what |-> "echo", b |-> lastRx'.b])
             /\ lastRx'.kind # "Ok" => QUIET' = QUIET ]_vars
    /\ [][ (mainPc = "check" /\ mainPc' = "write") => ~QUIET ]_vars
    /\ [][ ImuWritten => ~EvenQ ]_vars

\* C17 (amended): QUIET starts true and only the handler changes it: it
\* toggles QUIET on 'q' without writing to the logger, echoes every other
\* byte and leaves QUIET unchanged on a read error, so QUIET is true exactly
\* when an even number of 'q' bytes has been received; the main loop writes
\* an IMU line only in an iteration whose check read QUIET as false, and
\* never before the first 'q'.
C17_QuietToggle ==
    /\ [](QUIET <=> EvenQ)
    /\ [][ HandlerRan =>
             /\ (lastRx' = [kind |-> "Ok", b |-> TURN_QUIET]) =>
                    (QUIET' = ~QUIET /\ lastOut' = lastOut /\ cnt'.q = cnt.q + 1)
             /\ (lastRx'.kind = "Ok" /\ lastRx'.b # TURN_QUIET) =>
                    (QUIET' = QUIET /\ lastOut' = [by |-> "isr", what |-> "echo", b |-> lastRx'.b])
             /\ lastRx'.kind # "Ok" => QUIET' = QUIET
             /\ lastRx' # [kind |-> "Ok", b |-> TURN_QUIET] => cnt'.q = cnt.q ]_vars
    /\ [][ ~HandlerRan => QUIET' = QUIET /\ cnt'.q = cnt.q ]_vars
    /\ [][ (mainPc = "check" /\ mainPc' = "write") => ~seen' ]_vars
    /\ [][ (mainPc = "check" /\ mainPc' = "loop") => seen' ]_vars
    /\ [][ ImuWritten =>
             /\ mainPc = "write" /\ ~seen
             /\ cnt.q >= 1
             /\ lastOut' = [by |-> "main", what |-> "IMU", b |-> 0] ]_vars
    /\ [][ (lastOut'.what = "IMU" /\ lastOut' # lastOut) => ImuWritten ]_vars

\* An IMU line was written after the second 'q' had made QUIET true again.
C17_Witness ==
    /\ lastOut.what = "IMU" /\ cnt.imu >= 1
    /\ cnt.q = 2 /\ QUIET
    /\ ~seen /\ cnt.qAtCheck = 1

\* The contexts that have accessed static r.
Accessors(r) == {a.c : a \in acc[r]}

\* C11 as stated: no mutable state other than the Telemetry Slot (the
\* transmit buffer, a logger, a receiver, a flag) is read or written by both
\* the base context and an interrupt handler.  (init writes the buffer
\* before any handler runs, so the handler must never write it.)
C11_Original ==
    /\ \A r \in Statics : Accessors(r) # {"main", "isr"}
    /\ call["irq"].nFill + call["irq"].nClear = 0

\* C11 (amended): the Telemetry Slot is the only state that init and
\* handle_mpu hand to each other: the transmit buffer is changed by both,
\* but only by the context that holds the Ready state taken from the slot.
\* In the sensor-streaming program L, RX and QUIET are accessed by both main
\* and usart_exti25: main writes L and RX before it enables the interrupt
\* and never touches RX afterwards, the handler runs only once both are set,
\* QUIET is written by the handler alone and read by main, and L is written
\* through by both while the interrupt is enabled.
C11_SharedState ==
    /\ [][ BUFFER' # BUFFER =>
             \E c \in Ctx :
                /\ WritesBuffer(c)
                /\ st[c] = ReadyV
                /\ ~Owns(TELE)
                /\ \A d \in Ctx \ {c} : ~Owns(st[d]) ]_vars
    /\ [](isrOn => RX = "Some" /\ L = "Some")
    /\ [](mainPc = "halt" => lastOut = [by |-> "main", what |-> "Mpu error", b |-> 0])
    /\ [](\A a \in acc["RX"] : a.c = "main" => a.ph = "pre")
    /\ [](\A a \in acc["QUIET"] : (a.k = "w" => a.c = "isr") /\ (a.c = "main" => a.k = "r" /\ a.ph = "on"))
    /\ [](\A r \in Statics : \A a \in acc[r] : a.c = "isr" => a.ph = "on")
    /\ [][ QUIET' # QUIET => HandlerRan ]_vars
    /\ [][ (RX' # RX \/ L' # L) => (mainPc = "setup" /\ ~isrOn) ]_vars

\* The handler appends to the buffer that init filled before it, and both
\* main and usart_exti25 have used L and QUIET with the interrupt enabled.
C11_Witness ==
    /\ pc["irq"] = "write_all" /\ call["irq"].nClear = 1 /\ call["irq"].nFill = 1
    /\ call["irq"].entryBuf = BootStr /\ BUFFER = IntrStr
    /\ [c |-> "main", ph |-> "on", k |-> "w"] \in acc["L"]
    /\ [c |-> "isr", ph |-> "on", k |-> "w"] \in acc["L"]
    /\ [c |-> "main", ph |-> "on", k |-> "r"] \in acc["QUIET"]
    /\ [c |-> "isr", ph |-> "on", k |-> "w"] \in acc["QUIET"]
    /\ Accessors("RX") = {"main", "isr"}

====
